---- MODULE Spec2Model ----
(***************************************************************************)
(* Error chains of package e (kisunji/e).                                  *)
(*                                                                         *)
(* Revisions of the package are modelled over one heap of error            *)
(* objects:                                                                *)
(*   rev = "ptr"  src/errors.go: *Error with pointer receivers, explicit   *)
(*                op, Code()/Message() walking the chain, ClearMessage;    *)
(*   rev = "val"  src/unnamed/part_006 with src/interfaces.go: errorImpl   *)
(*                with value receivers, captured op and stacktrace;        *)
(*   rev = "ow"   src/unnamed/part_004: *Error with OverwriteCode,         *)
(*                SetClientMsg, ClearClientMsg and a default ErrorCode.    *)
(* An error value is an address into heap (NIL is the nil error).  A       *)
(* pointer receiver mutates the object at its address; a value receiver    *)
(* returns a copy at a fresh address.  The op of an errorImpl is an input  *)
(* of the calls, except under SpecCallers, where it is read from the call  *)
(* stack as getCallingFunc does.                                           *)
(***************************************************************************)
EXTENDS Integers, Sequences, FiniteSets, TLC

VARIABLES
    heap,   \* the error objects allocated so far, by address
    rev,    \* the revision of the package in use
    last,   \* the last call made: its name, error argument or receiver, result
    frames, \* the call stack of the running goroutine, innermost function first
    got     \* the name getCallingFunc returned, when it was the last call made

vars == <<heap, rev, last, frames, got>>

\* Bounds on the number of error objects ever allocated, by revision.
MaxPtrHeap == 4
MaxValHeap == 5
MaxOwHeap == 4
MaxHeap ==
    IF rev = "ptr" THEN MaxPtrHeap
    ELSE IF rev = "ow" THEN MaxOwHeap
    ELSE MaxValHeap

NIL == 0

\* Inputs of the calls, drawn from small sets.  Every call site has an op
\* constant, a code, a message and a stack of its own: the call that builds or
\* targets the object at address a passes the a-th name (or the empty string).
OpNames == <<"Leaf", "Foo", "Bar", "Fizz", "Buzz", "Whiz">>
CodeNames == <<"leaf_error", "database_error", "internal_error",
               "unexpected_error", "not_exists", "invalid_error">>
MessageNames == <<"no", "don't show this", "show this", "oh no", "clear me",
                  "clear me too">>
StackNames == <<"stack 1", "stack 2", "stack 3", "stack 4", "stack 5",
                "stack 6">>
Nth(names, a) == names[((a - 1) % Len(names)) + 1]
Ops(a) == {"", Nth(OpNames, a)}
Codes(a) == {"", Nth(CodeNames, a)}
Messages(a) == {"", Nth(MessageNames, a)}
Causes == {"", "cannot foo"}
Infos == {"failed to fizz"}
Prefixes == {"not encouraged but compatible: "}

Addrs(h) == 1..Len(h)

Min(S) == CHOOSE x \in S : \A y \in S : x <= y
Max(S) == CHOOSE x \in S : \A y \in S : x >= y

\* The positions at which the character ch stands in the text t.
At(t, ch) == {i \in 1..Len(t) : SubSeq(t, i, i) = ch}

\* One error object.  kind is its dynamic type:
\*   "errorString"   errors.New(text): a foreign leaf
\*   "wrapError"     fmt.Errorf with %w: a foreign wrapper, facet-less
\*   "clientFacing"  a foreign wrapper implementing ClientFacing only
\*   "hasStacktrace" a foreign wrapper implementing HasStacktrace only
\*   "Error"         *Error of errors.go
\*   "errorImpl"     errorImpl of part_006
\* msg is the text a foreign object stores.  lit is a history field no code
\* reads: the literal text a foreign wrapper's format put before its operand.
Obj(kind, op, code, message, stacktrace, msg, err) ==
    [kind |-> kind, op |-> op, code |-> code, message |-> message,
     stacktrace |-> stacktrace, msg |-> msg, err |-> err, lit |-> ""]

errorString(text) == Obj("errorString", "", "", "", "", text, NIL)

wrapError(msg, err) == Obj("wrapError", "", "", "", "", msg, err)

\* An unwrap that only follows the causes of library nodes.
UnwrapLibraryOnly(h, a) ==
    IF a = NIL THEN NIL
    ELSE IF h[a].kind \in {"Error", "errorImpl"} THEN h[a].err
    ELSE NIL

\* errors.Unwrap: the Unwrap method's result, nil for a type without one.
Unwrap(h, a) ==
    IF a = NIL THEN NIL
    ELSE IF h[a].kind = "errorString" THEN NIL
    ELSE h[a].err

\* The addresses visited by for err != nil { ...; err = errors.Unwrap(err) }.
RECURSIVE Chain(_, _)
Chain(h, a) == IF a = NIL THEN <<>> ELSE <<a>> \o Chain(h, Unwrap(h, a))

\* What a call of Error() that dereferences a nil nested err ends in.
PanicText == "panic: runtime error: invalid memory address or nil pointer dereference"

\* An Error method that writes the code before the op.
PtrErrorCodeFirst(e, cause) ==
    IF cause = PanicText THEN PanicText
    ELSE (IF e.code # "" THEN "[" \o e.code \o "] " ELSE "")
         \o (IF e.op # "" THEN e.op \o ": " ELSE "")
         \o cause

\* (*Error).Error of errors.go on a non-nil receiver e; cause is the result of
\* e.err.Error(), PanicText when that call panics.
PtrError(e, cause) ==
    IF cause = PanicText THEN PanicText
    ELSE (IF e.op # "" THEN e.op \o ": " ELSE "")
         \o (IF e.code # "" THEN "[" \o e.code \o "] " ELSE "")
         \o cause

\* An Error method that writes the code token of an empty code too.
ImplErrorEmptyToken(e, cause) ==
    IF cause = PanicText THEN PanicText
    ELSE (IF e.op # "" THEN e.op \o ": " ELSE "")
         \o "[" \o e.code \o "] "
         \o cause

\* An Error method that also prints the message.
ImplErrorWithMessage(e, cause) ==
    IF cause = PanicText THEN PanicText
    ELSE (IF e.op # "" THEN e.op \o ": " ELSE "")
         \o (IF e.code # "" THEN "[" \o e.code \o "] " ELSE "")
         \o (IF e.message # "" THEN e.message \o ": " ELSE "")
         \o cause

\* An Error method of errorImpl that writes the code before the op.
ImplErrorCodeFirst(e, cause) ==
    IF cause = PanicText THEN PanicText
    ELSE (IF e.code # "" THEN "[" \o e.code \o "] " ELSE "")
         \o (IF e.op # "" THEN e.op \o ": " ELSE "")
         \o cause

\* errorImpl.Error of part_006; cause as above.
ImplError(e, cause) ==
    IF cause = PanicText THEN PanicText
    ELSE (IF e.op # "" THEN e.op \o ": " ELSE "")
         \o (IF e.code # "" THEN "[" \o e.code \o "] " ELSE "")
         \o cause

\* (*Error).Error of part_004 on a non-nil receiver e: the code is written
\* after the cause, and only by the node whose nested err wraps nothing;
\* below is errors.Unwrap(e.err).
OwError(e, cause, below) ==
    IF cause = PanicText THEN PanicText
    ELSE (IF e.op # "" THEN e.op \o ": " ELSE "")
         \o cause
         \o (IF below = NIL /\ e.code # "" THEN " [" \o e.code \o "]" ELSE "")

\* err.Error() by dynamic type; the foreign types return their stored text.
RECURSIVE ErrorText(_, _)
ErrorText(h, a) ==
    IF h[a].kind = "Error" /\ rev = "ow"
    THEN OwError(h[a],
                 IF h[a].err = NIL THEN PanicText ELSE ErrorText(h, h[a].err),
                 IF h[a].err = NIL THEN NIL ELSE Unwrap(h, h[a].err))
    ELSE IF h[a].kind = "Error"
    THEN PtrError(h[a], IF h[a].err = NIL THEN PanicText
                        ELSE ErrorText(h, h[a].err))
    ELSE IF h[a].kind = "errorImpl"
    THEN ImplError(h[a], IF h[a].err = NIL THEN PanicText
                         ELSE ErrorText(h, h[a].err))
    ELSE h[a].msg

\* What fmt prints for the operand of %w: the operand's Error() text, the bad
\* verb for a nil operand, the recovered panic of a panicking Error method.
FmtOperand(h, err) ==
    IF err = NIL THEN "%!w(<nil>)"
    ELSE IF ErrorText(h, err) = PanicText
         THEN "%!v(PANIC=Error method: runtime error: invalid memory address or nil pointer dereference)"
         ELSE ErrorText(h, err)

\* fmt.Errorf(prefix + "%w", err): the text is formatted once, at the call; a
\* nil operand is no error to wrap, so the result is a plain errors.New.
Errorf(h, prefix, err) ==
    IF err = NIL THEN errorString(prefix \o FmtOperand(h, err))
    ELSE [wrapError(prefix \o FmtOperand(h, err), err) EXCEPT !.lit = prefix]

\* The error value a call path passes on: nil while it has met no error, then
\* the error it was last handed (the most recently built object).
Held == {Len(heap)}

\* A function of a Go program: runtime.Frame.Function is its package path, a
\* dot and its name inside the package.
Func(pkg, name) == [pkg |-> pkg, name |-> name]
Function(f) == f.pkg \o "." \o f.name

\* The stack of a goroutine that runs no function yet.
Goexit == <<Func("runtime", "goexit")>>

Call(name, recv, ret) == [name |-> name, recv |-> recv, ret |-> ret]

NoCall == Call("", NIL, NIL)

\* The result of a call that panics instead of returning.
Panic == -1

(***************************************************************************)
(* The caller's own code: foreign errors.                                  *)
(***************************************************************************)

\* errors.New(text): a foreign leaf, the root cause of a call path.
ErrorsNew(text) ==
    /\ heap = <<>>
    /\ heap' = Append(heap, errorString(text))
    /\ last' = Call("errors.New", NIL, Len(heap) + 1)
    /\ got' = ""
    /\ UNCHANGED <<rev, frames>>

\* fmt.Errorf(prefix + "%w", err): a foreign, facet-less wrapper.
FmtErrorf(prefix, err) ==
    /\ err # NIL
    /\ Len(heap) + 1 <= MaxHeap
    /\ heap' = Append(heap, Errorf(heap, prefix, err))
    /\ last' = Call("fmt.Errorf", err, Len(heap) + 1)
    /\ got' = ""
    /\ UNCHANGED <<rev, frames>>

\* A foreign wrapper type that implements ClientFacing (and Unwrap) only.
ClientWrap(code, message, err) ==
    /\ err # NIL
    /\ Len(heap) + 1 <= MaxHeap
    /\ heap' = Append(heap, Obj("clientFacing", "", code, message, "",
                                "client: " \o FmtOperand(heap, err), err))
    /\ last' = Call("ClientWrap", err, Len(heap) + 1)
    /\ got' = ""
    /\ UNCHANGED <<rev, frames>>

\* A foreign wrapper type that implements HasStacktrace (and Unwrap) only.
StackWrap(stacktrace, err) ==
    /\ err # NIL
    /\ Len(heap) + 1 <= MaxHeap
    /\ heap' = Append(heap, Obj("hasStacktrace", "", "", "", stacktrace,
                                "traced: " \o FmtOperand(heap, err), err))
    /\ last' = Call("StackWrap", err, Len(heap) + 1)
    /\ got' = ""
    /\ UNCHANGED <<rev, frames>>

(***************************************************************************)
(* rev = "ptr": src/errors.go                                              *)
(***************************************************************************)

InitPtr ==
    heap = <<>> /\ rev = "ptr" /\ last = NoCall /\ frames = Goexit /\ got = ""

\* A New that defaults an empty code.
PtrNewObjsDefaultCode(at, op, code, cause) ==
    <<errorString(cause),
      Obj("Error", op, IF code = "" THEN "unexpected_error" ELSE code,
          "", "", "", at)>>

\* The objects New(op, code, cause) allocates: the leaf errors.New(cause) at
\* address at, then the *Error around it.
PtrNewObjs(at, op, code, cause) ==
    <<errorString(cause), Obj("Error", op, code, "", "", "", at)>>

\* New(op, code, cause)
PtrNew(op, code, cause) ==
    /\ rev = "ptr"
    /\ heap = <<>>
    /\ heap' = heap \o PtrNewObjs(Len(heap) + 1, op, code, cause)
    /\ last' = Call("New", NIL, Len(heap'))
    /\ got' = ""
    /\ UNCHANGED <<rev, frames>>

\* The objects Wrap(op, err, optionalInfo...) allocates: the annotation
\* fmt.Errorf("(%v): %w", optionalInfo[0], err) at address at when an
\* optionalInfo is given, then the *Error around it.
PtrWrapObjs(h, at, op, err, info) ==
    IF Len(info) > 0
    THEN <<Errorf(h, "(" \o info[1] \o "): ", err),
           Obj("Error", op, "", "", "", "", at)>>
    ELSE <<Obj("Error", op, "", "", "", "", err)>>

\* Wrap(op, err, optionalInfo...); err may be nil.
PtrWrap(op, err, info) ==
    /\ rev = "ptr"
    /\ Len(heap) + Len(PtrWrapObjs(heap, Len(heap) + 1, op, err, info)) <= MaxHeap
    /\ heap' = heap \o PtrWrapObjs(heap, Len(heap) + 1, op, err, info)
    /\ last' = Call("Wrap", err, Len(heap'))
    /\ got' = ""
    /\ UNCHANGED <<rev, frames>>

\* The receivers a method of *Error is called on: the *Error objects.
PtrReceivers == {a \in Addrs(heap) : heap[a].kind = "Error"}

\* The nil receiver of a method called on a nil result: Wrap(err).SetCode(c)
\* while the call path holds the nil error.
NilReceivers == Held \cap {NIL}

\* A SetCode that writes the code to the innermost *Error of the chain.
PtrSetCodeHeapRoot(h, e, code) ==
    IF e # NIL
    THEN LET c == Chain(h, e)
             L == {i \in 1..Len(c) : h[c[i]].kind = "Error"}
             root == c[CHOOSE i \in L : \A j \in L : j <= i]
         IN [h EXCEPT ![root].code = code]
    ELSE h

\* A SetCode that makes a node for a nil receiver.
PtrSetCodeHeapAllocating(h, e, code) ==
    IF e # NIL THEN [h EXCEPT ![e].code = code]
    ELSE Append(h, Obj("Error", "", code, "", "", "", NIL))

\* The heap after (*Error).SetCode(code) on e.
PtrSetCodeHeap(h, e, code) ==
    IF e # NIL THEN [h EXCEPT ![e].code = code] ELSE h

\* (*Error).SetCode
PtrSetCode(e, code) ==
    /\ rev = "ptr"
    /\ heap' = PtrSetCodeHeap(heap, e, code)
    /\ last' = Call("SetCode", e, e)
    /\ got' = ""
    /\ UNCHANGED <<rev, frames>>

\* The heap after (*Error).SetMessage(message) on e.
PtrSetMessageHeap(h, e, message) ==
    IF e # NIL THEN [h EXCEPT ![e].message = message] ELSE h

\* (*Error).SetMessage
PtrSetMessage(e, message) ==
    /\ rev = "ptr"
    /\ heap' = PtrSetMessageHeap(heap, e, message)
    /\ last' = Call("SetMessage", e, e)
    /\ got' = ""
    /\ UNCHANGED <<rev, frames>>

\* A ClearMessage that writes to its receiver only.
PtrClearedLocal(h, e) ==
    IF e = NIL THEN {} ELSE {e}

\* The objects (*Error).ClearMessage on e writes: e itself and every *Error
\* with a message met by unwrapping from e.err.
PtrCleared(h, e) ==
    IF e = NIL THEN {}
    ELSE LET c == Chain(h, h[e].err)
         IN {e} \cup {a \in {c[i] : i \in 1..Len(c)} :
                         h[a].kind = "Error" /\ h[a].message # ""}

\* A ClearMessage that resets the code of the nodes it clears as well.
PtrClearFacetsHeap(h, e) ==
    [a \in Addrs(h) |->
        IF a \in PtrCleared(h, e)
        THEN [h[a] EXCEPT !.message = "", !.code = ""] ELSE h[a]]

\* The heap after (*Error).ClearMessage on e.
PtrClearMessageHeap(h, e) ==
    [a \in Addrs(h) |->
        IF a \in PtrCleared(h, e) THEN [h[a] EXCEPT !.message = ""] ELSE h[a]]

\* (*Error).ClearMessage
PtrClearMessage(e) ==
    /\ rev = "ptr"
    /\ heap' = PtrClearMessageHeap(heap, e)
    /\ last' = Call("ClearMessage", e, e)
    /\ got' = ""
    /\ UNCHANGED <<rev, frames>>

\* The loop of (*Error).Code and (*Error).Message below the receiver: the
\* facet of the first *Error that has it non-empty.
RECURSIVE PtrWalk(_, _, _)
PtrWalk(h, err, facet) ==
    IF err = NIL THEN ""
    ELSE IF h[err].kind = "Error" /\ h[err][facet] # "" THEN h[err][facet]
    ELSE PtrWalk(h, Unwrap(h, err), facet)

\* Code() of a ClientFacing value: (*Error).Code, or a foreign type's own code.
PtrCode(h, e) ==
    IF e = NIL THEN ""
    ELSE IF h[e].kind # "Error" THEN h[e].code
    ELSE IF h[e].code # "" THEN h[e].code
    ELSE PtrWalk(h, h[e].err, "code")

\* Message() of a ClientFacing value: (*Error).Message, or a foreign type's
\* own message.
PtrMessage(h, e) ==
    IF e = NIL THEN ""
    ELSE IF h[e].kind # "Error" THEN h[e].message
    ELSE IF h[e].message # "" THEN h[e].message
    ELSE PtrWalk(h, h[e].err, "message")

\* err.(ClientFacing) of errors.go: the type has Code() and Message().
PtrIsClientFacing(h, err) == h[err].kind \in {"Error", "clientFacing"}

\* ErrorCode of errors.go
RECURSIVE PtrErrorCode(_, _)
PtrErrorCode(h, err) ==
    IF err = NIL THEN ""
    ELSE IF PtrIsClientFacing(h, err) /\ PtrCode(h, err) # "" THEN PtrCode(h, err)
    ELSE PtrErrorCode(h, Unwrap(h, err))

\* ErrorMessage of errors.go
RECURSIVE PtrErrorMessage(_, _)
PtrErrorMessage(h, err) ==
    IF err = NIL THEN ""
    ELSE IF PtrIsClientFacing(h, err) /\ PtrMessage(h, err) # ""
         THEN PtrMessage(h, err)
    ELSE PtrErrorMessage(h, Unwrap(h, err))

PtrNext ==
    \/ rev = "ptr" /\ ErrorsNew("basic error")
    \/ \E op \in Ops(2), c \in Codes(2), t \in Causes : PtrNew(op, c, t)
    \/ \E err \in Held : PtrWrap(Nth(OpNames, Len(heap) + 1), err, <<>>)
    \/ \E err \in Held, i \in Infos :
          PtrWrap(Nth(OpNames, Len(heap) + 2), err, <<i>>)
    \/ \E p \in Prefixes, err \in Held : rev = "ptr" /\ FmtErrorf(p, err)
    \/ \E err \in Held :
          rev = "ptr" /\ ClientWrap(Nth(CodeNames, Len(heap) + 1),
                                    Nth(MessageNames, Len(heap) + 1), err)
    \/ \E e \in PtrReceivers \cup NilReceivers :
          PtrSetCode(e, Nth(CodeNames, e))
    \/ \E e \in PtrReceivers \cup NilReceivers :
          PtrSetMessage(e, Nth(MessageNames, e))
    \/ \E e \in PtrReceivers \cup NilReceivers : PtrClearMessage(e)

SpecPtr == InitPtr /\ [][PtrNext]_vars

(***************************************************************************)
(* rev = "ow": src/unnamed/part_004                                        *)
(***************************************************************************)

InitOw ==
    heap = <<>> /\ rev = "ow" /\ last = NoCall /\ frames = Goexit /\ got = ""

\* New(op, code, cause): the same two objects as in errors.go.
OwNew(op, code, cause) ==
    /\ rev = "ow"
    /\ heap = <<>>
    /\ heap' = heap \o PtrNewObjs(Len(heap) + 1, op, code, cause)
    /\ last' = Call("New", NIL, Len(heap'))
    /\ got' = ""
    /\ UNCHANGED <<rev, frames>>

\* Wrap(op, err, optionalInfo...): the same objects as in errors.go; err may
\* be nil.
OwWrap(op, err, info) ==
    /\ rev = "ow"
    /\ Len(heap) + Len(PtrWrapObjs(heap, Len(heap) + 1, op, err, info)) <= MaxHeap
    /\ heap' = heap \o PtrWrapObjs(heap, Len(heap) + 1, op, err, info)
    /\ last' = Call("Wrap", err, Len(heap'))
    /\ got' = ""
    /\ UNCHANGED <<rev, frames>>

\* The objects met by unwrapping from e.err, for a non-nil e.
Below(h, e) ==
    LET c == Chain(h, h[e].err) IN {c[i] : i \in 1..Len(c)}

\* An OverwriteCode that starts its loop at the receiver.
OwOverwrittenFromReceiver(h, e) ==
    IF e = NIL THEN {}
    ELSE {a \in Below(h, e) \cup {e} : h[a].kind = "Error" /\ h[a].code # ""}

\* The objects (*Error).OverwriteCode on e writes: every *Error with a code
\* met by unwrapping from e.err.
OwOverwritten(h, e) ==
    IF e = NIL THEN {}
    ELSE {a \in Below(h, e) : h[a].kind = "Error" /\ h[a].code # ""}

\* The heap after (*Error).OverwriteCode(code) on e.
OwOverwriteCodeHeap(h, e, code) ==
    LET written == OwOverwritten(h, e)
    IN [a \in Addrs(h) |->
           IF a \in written THEN [h[a] EXCEPT !.code = code] ELSE h[a]]

\* (*Error).OverwriteCode
OwOverwriteCode(e, code) ==
    /\ rev = "ow"
    /\ heap' = OwOverwriteCodeHeap(heap, e, code)
    /\ last' = Call("OverwriteCode", e, e)
    /\ got' = ""
    /\ UNCHANGED <<rev, frames>>

\* The heap after (*Error).ClearClientMsg on e: the message of e and of every
\* *Error with a message met by unwrapping from e.err is emptied.
OwClearClientMsgHeap(h, e) ==
    LET written ==
            IF e = NIL THEN {}
            ELSE {e} \cup {a \in Below(h, e) :
                              h[a].kind = "Error" /\ h[a].message # ""}
    IN [a \in Addrs(h) |->
           IF a \in written THEN [h[a] EXCEPT !.message = ""] ELSE h[a]]

\* (*Error).ClearClientMsg
OwClearClientMsg(e) ==
    /\ rev = "ow"
    /\ heap' = OwClearClientMsgHeap(heap, e)
    /\ last' = Call("ClearClientMsg", e, e)
    /\ got' = ""
    /\ UNCHANGED <<rev, frames>>

\* A SetClientMsg that leaves the messages below the receiver alone.
OwSetClientMsgHeapLocal(h, e, localizedMsg) ==
    IF e # NIL THEN [h EXCEPT ![e].message = localizedMsg] ELSE h

\* The heap after (*Error).SetClientMsg(localizedMsg) on e: ClearClientMsg,
\* then the receiver's message is written.
OwSetClientMsgHeap(h, e, localizedMsg) ==
    IF e # NIL
    THEN [OwClearClientMsgHeap(h, e) EXCEPT ![e].message = localizedMsg]
    ELSE OwClearClientMsgHeap(h, e)

\* (*Error).SetClientMsg
OwSetClientMsg(e, localizedMsg) ==
    /\ rev = "ow"
    /\ heap' = OwSetClientMsgHeap(heap, e, localizedMsg)
    /\ last' = Call("SetClientMsg", e, e)
    /\ got' = ""
    /\ UNCHANGED <<rev, frames>>

\* An ErrorCode that goes on through a foreign error that wraps another.
RECURSIVE OwErrorCodeThroughForeign(_, _)
OwErrorCodeThroughForeign(h, err) ==
    IF err = NIL THEN ""
    ELSE IF h[err].kind = "Error" /\ h[err].code # "" THEN h[err].code
    ELSE IF h[err].err # NIL THEN OwErrorCodeThroughForeign(h, h[err].err)
    ELSE "unexpected_error"

\* ErrorCode of part_004
RECURSIVE OwErrorCode(_, _)
OwErrorCode(h, err) ==
    IF err = NIL THEN ""
    ELSE IF h[err].kind = "Error" /\ h[err].code # "" THEN h[err].code
    ELSE IF h[err].kind = "Error" /\ h[err].err # NIL
         THEN OwErrorCode(h, h[err].err)
    ELSE "unexpected_error"

\* ErrorMessage of part_004
RECURSIVE OwErrorMessage(_, _)
OwErrorMessage(h, err) ==
    IF err = NIL THEN ""
    ELSE IF h[err].kind = "Error" /\ h[err].message # "" THEN h[err].message
    ELSE OwErrorMessage(h, Unwrap(h, err))

OwNext ==
    \/ rev = "ow" /\ ErrorsNew("basic error")
    \/ \E op \in Ops(2), c \in Codes(2), t \in Causes : OwNew(op, c, t)
    \/ \E err \in Held : OwWrap(Nth(OpNames, Len(heap) + 1), err, <<>>)
    \/ \E err \in Held, i \in Infos :
          OwWrap(Nth(OpNames, Len(heap) + 2), err, <<i>>)
    \/ \E p \in Prefixes, err \in Held : rev = "ow" /\ FmtErrorf(p, err)
    \/ \E e \in PtrReceivers \cup NilReceivers :
          \E c \in Codes(e + 2) : OwOverwriteCode(e, c)
    \/ \E e \in PtrReceivers \cup NilReceivers :
          \E m \in Messages(e) : OwSetClientMsg(e, m)
    \/ \E e \in PtrReceivers \cup NilReceivers : OwClearClientMsg(e)

SpecOw == InitOw /\ [][OwNext]_vars

(***************************************************************************)
(* rev = "val": src/unnamed/part_006 with src/interfaces.go                *)
(***************************************************************************)

InitVal ==
    heap = <<>> /\ rev = "val" /\ last = NoCall /\ frames = Goexit /\ got = ""

\* err.(ClientFacing) of interfaces.go: ClientCode() and ClientMessage().
IsClientFacing(h, err) == h[err].kind \in {"errorImpl", "clientFacing"}

\* err.(HasStacktrace) of interfaces.go: Stacktrace().
IsHasStacktrace(h, err) == h[err].kind \in {"errorImpl", "hasStacktrace"}

\* errorImpl.ClientCode (a foreign ClientFacing type returns its own code)
ClientCode(h, e) == h[e].code

\* errorImpl.ClientMessage
ClientMessage(h, e) == h[e].message

\* errorImpl.Stacktrace
Stacktrace(h, e) == h[e].stacktrace

\* ErrorCode keeping the last code met instead of returning the first.
RECURSIVE ErrorCodeInnermost(_, _)
ErrorCodeInnermost(h, err) ==
    IF err = NIL THEN ""
    ELSE IF ErrorCodeInnermost(h, Unwrap(h, err)) # ""
         THEN ErrorCodeInnermost(h, Unwrap(h, err))
    ELSE IF IsClientFacing(h, err) THEN ClientCode(h, err)
    ELSE ""

\* ErrorCode of interfaces.go
RECURSIVE ErrorCode(_, _)
ErrorCode(h, err) ==
    IF err = NIL THEN ""
    ELSE IF IsClientFacing(h, err) /\ ClientCode(h, err) # ""
         THEN ClientCode(h, err)
    ELSE ErrorCode(h, Unwrap(h, err))

\* ErrorMessage returning the first ClientFacing link's message, empty or not.
RECURSIVE ErrorMessageFirstLink(_, _)
ErrorMessageFirstLink(h, err) ==
    IF err = NIL THEN ""
    ELSE IF IsClientFacing(h, err) THEN ClientMessage(h, err)
    ELSE ErrorMessageFirstLink(h, Unwrap(h, err))

\* ErrorMessage of interfaces.go
RECURSIVE ErrorMessage(_, _)
ErrorMessage(h, err) ==
    IF err = NIL THEN ""
    ELSE IF IsClientFacing(h, err) /\ ClientMessage(h, err) # ""
         THEN ClientMessage(h, err)
    ELSE ErrorMessage(h, Unwrap(h, err))

\* The loop of ErrorStacktrace returning at the first stacktrace met.
RECURSIVE ErrorStacktraceOutermost(_, _, _)
ErrorStacktraceOutermost(h, err, stack) ==
    IF err = NIL THEN stack
    ELSE IF IsHasStacktrace(h, err) /\ Stacktrace(h, err) # ""
         THEN Stacktrace(h, err)
    ELSE ErrorStacktraceOutermost(h, Unwrap(h, err), stack)

\* The loop of ErrorStacktrace entered with the local variable stack.
RECURSIVE ErrorStacktraceLoop(_, _, _)
ErrorStacktraceLoop(h, err, stack) ==
    IF err = NIL THEN stack
    ELSE ErrorStacktraceLoop(h, Unwrap(h, err),
            IF IsHasStacktrace(h, err) /\ Stacktrace(h, err) # ""
            THEN Stacktrace(h, err) ELSE stack)

\* An ErrorStacktrace that ends its walk at a link without Stacktrace().
RECURSIVE ErrorStacktraceStopAtForeign(_, _)
ErrorStacktraceStopAtForeign(h, err) ==
    IF err = NIL \/ ~IsHasStacktrace(h, err) THEN ""
    ELSE IF ErrorStacktraceStopAtForeign(h, Unwrap(h, err)) # ""
         THEN ErrorStacktraceStopAtForeign(h, Unwrap(h, err))
    ELSE Stacktrace(h, err)

\* ErrorStacktrace of interfaces.go
ErrorStacktrace(h, err) == ErrorStacktraceLoop(h, err, "")

\* The objects NewError(code, cause) allocates; op is getCallingFunc(2), the
\* caller's name, and stack is string(debug.Stack()).
NewErrorObjs(at, op, code, cause, stack) ==
    <<errorString(cause), Obj("errorImpl", op, code, "", stack, "", at)>>

\* NewError(code, cause)
NewError(op, code, cause, stack) ==
    /\ rev = "val"
    /\ heap = <<>>
    /\ heap' = heap \o NewErrorObjs(Len(heap) + 1, op, code, cause, stack)
    /\ last' = Call("NewError", NIL, Len(heap'))
    /\ got' = ""
    /\ UNCHANGED <<rev, frames>>

\* A Wrap that captures a stacktrace of its own at every call.
WrapStacktraceFresh(h, err, stack) == stack

\* The stacktrace Wrap and Wrapf store: the wrapped error's, or a fresh one.
WrapStacktrace(h, err, stack) ==
    IF ErrorStacktrace(h, err) = "" THEN stack ELSE ErrorStacktrace(h, err)

\* A Wrap that keeps the annotation as the new node's message.
WrapObjsInfoAsMessage(h, at, op, err, info, stack) ==
    IF Len(info) > 0
    THEN <<Errorf(h, "(" \o info[1] \o "): ", err),
           Obj("errorImpl", op, "", info[1], WrapStacktrace(h, err, stack), "", at)>>
    ELSE <<Obj("errorImpl", op, "", "", WrapStacktrace(h, err, stack), "", err)>>

\* A Wrap that annotates with the last optionalInfo string.
WrapObjsLastInfo(h, at, op, err, info, stack) ==
    IF Len(info) > 0
    THEN <<Errorf(h, "(" \o info[Len(info)] \o "): ", err),
           Obj("errorImpl", op, "", "", WrapStacktrace(h, err, stack), "", at)>>
    ELSE <<Obj("errorImpl", op, "", "", WrapStacktrace(h, err, stack), "", err)>>

\* The objects Wrap(err, optionalInfo...) allocates for a non-nil err.
WrapObjs(h, at, op, err, info, stack) ==
    IF Len(info) > 0
    THEN <<Errorf(h, "(" \o info[1] \o "): ", err),
           Obj("errorImpl", op, "", "", WrapStacktrace(h, err, stack), "", at)>>
    ELSE <<Obj("errorImpl", op, "", "", WrapStacktrace(h, err, stack), "", err)>>

\* Wrap(err, optionalInfo...)
Wrap(op, err, info, stack) ==
    /\ rev = "val"
    /\ IF err = NIL
       THEN /\ heap' = heap
            /\ last' = Call("Wrap", NIL, NIL)
       ELSE /\ Len(heap) + Len(WrapObjs(heap, Len(heap) + 1, op, err, info, stack))
                 <= MaxHeap
            /\ heap' = heap \o WrapObjs(heap, Len(heap) + 1, op, err, info, stack)
            /\ last' = Call("Wrap", err, Len(heap'))
    /\ got' = ""
    /\ UNCHANGED <<rev, frames>>

\* fmt.Sprintf(format, args...): format is its literal pieces and "%v" verbs
\* in order, an operand its type and default text.
RECURSIVE Extra(_)
Extra(args) ==
    IF args = <<>> THEN ""
    ELSE Head(args).type \o "=" \o Head(args).text
         \o (IF Len(args) > 1 THEN ", " ELSE "") \o Extra(Tail(args))

RECURSIVE Sprintf(_, _)
Sprintf(format, args) ==
    IF format = <<>>
    THEN IF args = <<>> THEN "" ELSE "%!(EXTRA " \o Extra(args) \o ")"
    ELSE IF Head(format) = "%v"
    THEN IF args = <<>> THEN "%!v(MISSING)" \o Sprintf(Tail(format), args)
         ELSE Head(args).text \o Sprintf(Tail(format), Tail(args))
    ELSE Head(format) \o Sprintf(Tail(format), args)

\* A Wrapf that does not format: the annotation is made without the args.
WrapfObjsUnformatted(h, at, op, err, fmtInfo, args, stack) ==
    <<Errorf(h, "(" \o Sprintf(fmtInfo, <<>>) \o "): ", err),
      Obj("errorImpl", op, "", "", WrapStacktrace(h, err, stack), "", at)>>

\* The objects Wrapf(err, fmtInfo, args...) allocates for a non-nil err.
WrapfObjs(h, at, op, err, fmtInfo, args, stack) ==
    <<Errorf(h, "(" \o Sprintf(fmtInfo, args) \o "): ", err),
      Obj("errorImpl", op, "", "", WrapStacktrace(h, err, stack), "", at)>>

\* Wrapf(err, fmtInfo, args...)
Wrapf(op, err, fmtInfo, args, stack) ==
    /\ rev = "val"
    /\ IF err = NIL
       THEN /\ heap' = heap
            /\ last' = Call("Wrapf", NIL, NIL)
       ELSE /\ Len(heap) + 2 <= MaxHeap
            /\ heap' = heap \o WrapfObjs(heap, Len(heap) + 1, op, err, fmtInfo,
                                         args, stack)
            /\ last' = Call("Wrapf", err, Len(heap'))
    /\ got' = ""
    /\ UNCHANGED <<rev, frames>>

\* The receivers a method of errorImpl is called on: the value just returned.
Receivers == {a \in Held \ {NIL} : heap[a].kind = "errorImpl"}

\* A SetCode with a pointer receiver: it writes the value it is called on.
SetCodeInPlace(e, code) ==
    /\ rev = "val"
    /\ IF e = NIL
       THEN /\ heap' = heap
            /\ last' = Call("SetCode", NIL, Panic)
       ELSE /\ heap' = [heap EXCEPT ![e].code = code]
            /\ last' = Call("SetCode", e, e)
    /\ got' = ""
    /\ UNCHANGED <<rev, frames>>

\* errorImpl.SetCode: the receiver is a copy, which is changed and returned.
SetCodeObj(e, code) == [e EXCEPT !.code = code]

\* SetCode called on the Error e; a method call on the nil Error panics.
SetCode(e, code) ==
    /\ rev = "val"
    /\ IF e = NIL
       THEN /\ heap' = heap
            /\ last' = Call("SetCode", NIL, Panic)
       ELSE /\ Len(heap) + 1 <= MaxHeap
            /\ heap' = Append(heap, SetCodeObj(heap[e], code))
            /\ last' = Call("SetCode", e, Len(heap'))
    /\ got' = ""
    /\ UNCHANGED <<rev, frames>>

\* errorImpl.SetMessage
SetMessageObj(e, message) == [e EXCEPT !.message = message]

\* SetMessage called on the Error e; a method call on the nil Error panics.
SetMessage(e, message) ==
    /\ rev = "val"
    /\ IF e = NIL
       THEN /\ heap' = heap
            /\ last' = Call("SetMessage", NIL, Panic)
       ELSE /\ Len(heap) + 1 <= MaxHeap
            /\ heap' = Append(heap, SetMessageObj(heap[e], message))
            /\ last' = Call("SetMessage", e, Len(heap'))
    /\ got' = ""
    /\ UNCHANGED <<rev, frames>>

Formats == {<<"test id: ", "%v">>}
Operands == {<<[type |-> "int", text |-> "123"]>>}

ValNext ==
    \/ \E t \in Causes : rev = "val" /\ ErrorsNew(t)
    \/ \E c \in Codes(2), t \in Causes :
          NewError(Nth(OpNames, 2), c, t, Nth(StackNames, 2))
    \/ \E err \in Held :
          Wrap(Nth(OpNames, Len(heap) + 1), err, <<>>,
               Nth(StackNames, Len(heap) + 1))
    \/ \E err \in Held, i \in Infos :
          Wrap(Nth(OpNames, Len(heap) + 2), err, <<i>>,
               Nth(StackNames, Len(heap) + 2))
    \/ \E err \in Held, f \in Formats, args \in Operands :
          Wrapf(Nth(OpNames, Len(heap) + 2), err, f, args,
                Nth(StackNames, Len(heap) + 2))
    \/ \E p \in Prefixes, err \in Held : rev = "val" /\ FmtErrorf(p, err)
    \/ \E err \in Held, c \in Codes(Len(heap) + 1) :
          rev = "val" /\ ClientWrap(c, Nth(MessageNames, Len(heap) + 1), err)
    \/ \E err \in Held, st \in {"", Nth(StackNames, Len(heap) + 1)} :
          rev = "val" /\ StackWrap(st, err)
    \/ \E e \in Receivers \cup NilReceivers :
          \E c \in Codes(Len(heap) + 1) : SetCode(e, c)
    \/ \E e \in Receivers \cup NilReceivers :
          \E m \in Messages(Len(heap) + 1) : SetMessage(e, m)

SpecVal == InitVal /\ [][ValNext]_vars

(***************************************************************************)
(* Both revisions.                                                         *)
(***************************************************************************)

Init == InitPtr \/ InitVal

Next == PtrNext \/ ValNext

Spec == Init /\ [][Next]_vars

(***************************************************************************)
(* Concurrent call paths over one package-level error value.  Each path is *)
(* a function of its own, so its nodes carry its name as op; a step is one *)
(* whole library call of one path.                                         *)
(***************************************************************************)

Paths == {"Fizz", "Buzz"}

\* var errSentinel = NewError(CodeInternal, "sentinel error") of the tests,
\* and its errors.go counterpart, which also has a message.
Sentinel == 2
SentinelObjs ==
    IF rev = "ptr"
    THEN PtrSetMessageHeap(PtrNewObjs(1, "init", "internal_error", "sentinel error"),
                           Sentinel, "show this")
    ELSE NewErrorObjs(1, "init", "internal_error", "sentinel error", "stack 1")

InitPaths ==
    /\ rev \in {"ptr", "val"}
    /\ heap = SentinelObjs
    /\ last = NoCall
    /\ frames = Goexit
    /\ got = ""

\* The nodes path p built, and the error value p holds: the node it was last
\* handed, the sentinel before it built any.
Owned(h, p) == {a \in Addrs(h) : h[a].op = p}
HeldBy(h, p) ==
    IF Owned(h, p) = {} THEN Sentinel
    ELSE CHOOSE a \in Owned(h, p) : \A b \in Owned(h, p) : b <= a

PathsNext ==
    \/ \E p \in Paths : PtrWrap(p, HeldBy(heap, p), <<>>)
    \/ \E p \in Paths :
          Owned(heap, p) # {}
              /\ PtrSetCode(HeldBy(heap, p), Nth(CodeNames, HeldBy(heap, p)))
    \/ \E p \in Paths :
          Owned(heap, p) # {}
              /\ PtrSetMessage(HeldBy(heap, p), Nth(MessageNames, HeldBy(heap, p)))
    \/ \E p \in Paths : Owned(heap, p) # {} /\ PtrClearMessage(HeldBy(heap, p))
    \/ \E p \in Paths :
          Wrap(p, HeldBy(heap, p), <<>>, Nth(StackNames, Len(heap) + 1))
    \/ \E p \in Paths, c \in Codes(Len(heap)) :
          Owned(heap, p) # {} /\ SetCode(HeldBy(heap, p), c)
    \/ \E p \in Paths, m \in Messages(Len(heap)) :
          Owned(heap, p) # {} /\ SetMessage(HeldBy(heap, p), m)
    \/ \E c \in Codes(Len(heap) + 1) : SetCode(Sentinel, c)
    \/ \E m \in Messages(Len(heap) + 1) : SetMessage(Sentinel, m)

SpecPaths == InitPaths /\ [][PathsNext]_vars


(***************************************************************************)
(* The captured op: getCallingFunc of src/unnamed/part_006 on the call     *)
(* stack of the goroutine that calls a constructor.                        *)
(***************************************************************************)

\* The width of int, the deepest call stack, and the most objects a chain
\* has when a constructor wraps it.
IntBits == 4
MaxDepth == 3
MaxWrapped == 2

\* The int that Go's + leaves of the mathematical sum x: it wraps around.
WrapInt(x) == ((x + 2 ^ (IntBits - 1)) % (2 ^ IntBits)) - 2 ^ (IntBits - 1)
Ints == (0 - 2 ^ (IntBits - 1)) .. (2 ^ (IntBits - 1) - 1)

\* runtime.Callers(skip, pc) with len(pc) = 1 on the stack stk, whose first
\* frame is Callers itself: the frames it stores, none when skip frames are
\* the whole stack; a skip below zero skips nothing.
Callers(skip, stk) ==
    IF skip >= Len(stk) THEN <<>>
    ELSE <<stk[(IF skip > 0 THEN skip ELSE 0) + 1]>>

\* ss := strings.Split(s, "/"); ss[len(ss)-1]
LastSegment(s) ==
    IF At(s, "/") = {} THEN s ELSE SubSeq(s, Max(At(s, "/")) + 1, Len(s))

\* strings.SplitAfterN(s, ".", 2)
SplitAfterN2(s) ==
    IF At(s, ".") = {} THEN <<s>>
    ELSE <<SubSeq(s, 1, Min(At(s, "."))), SubSeq(s, Min(At(s, ".")) + 1, Len(s))>>

E == "github.com/kisunji/e"

\* A getCallingFunc that keeps only what follows the last dot of the name.
getCallingFuncLastDot(frameOffset, callers) ==
    LET programCounters ==
            Callers(WrapInt(1 + frameOffset),
                    <<Func("runtime", "Callers"), Func(E, "getCallingFunc")>>
                        \o callers)
    IN IF Len(programCounters) = 0 THEN "unknown"
       ELSE LET funcname == LastSegment(Function(programCounters[1]))
            IN SubSeq(funcname, Max(At(funcname, ".")) + 1, Len(funcname))

\* getCallingFunc(frameOffset) called with the frames callers above it; the
\* index [1] panics when the name has no dot.
getCallingFunc(frameOffset, callers) ==
    LET programCounters ==
            Callers(WrapInt(1 + frameOffset),
                    <<Func("runtime", "Callers"), Func(E, "getCallingFunc")>>
                        \o callers)
    IN IF Len(programCounters) = 0 THEN "unknown"
       ELSE LET funcname == LastSegment(Function(programCounters[1]))
            IN IF Len(SplitAfterN2(funcname)) < 2
               THEN "panic: runtime error: index out of range [1] with length 1"
               ELSE SplitAfterN2(funcname)[2]

\* The op a constructor records: getCallingFunc(2) called from the
\* constructor, which the running function called.
CapturedOp(constructor) == getCallingFunc(2, <<Func(E, constructor)>> \o frames)

\* The functions of the tests that call the constructors: a named function,
\* a function literal, a function literal started with go, and the package
\* initialiser of var errSentinel.
Funcs ==
    {Func(E, "Foo"), Func(E, "TestErrors.func1"), Func(E, "TestErrors.func2.2"),
     Func(E, "init")}

InitCallers == InitVal

\* The running function calls f, or a goroutine starts with f.
Enter(f) ==
    /\ Len(frames) < MaxDepth
    /\ frames' = <<f>> \o frames
    /\ last' = Call("call", NIL, NIL)
    /\ got' = ""
    /\ UNCHANGED <<heap, rev>>

\* The running function returns.
Return ==
    /\ Len(frames) > 1
    /\ frames' = Tail(frames)
    /\ last' = Call("return", NIL, NIL)
    /\ got' = ""
    /\ UNCHANGED <<heap, rev>>

\* got := getCallingFunc(tt.frameOffset); the test builds no error, and
\* getCallingFunc reads none.
Test_getCallingFunc(frameOffset) ==
    /\ heap = <<>>
    /\ got' = getCallingFunc(frameOffset, frames)
    /\ last' = Call("getCallingFunc", frameOffset, NIL)
    /\ UNCHANGED <<heap, rev, frames>>

\* The objects NewErrorf(code, fmtCause, args...) allocates.
NewErrorfObjs(at, op, code, fmtCause, args, stack) ==
    <<errorString(Sprintf(fmtCause, args)),
      Obj("errorImpl", op, code, "", stack, "", at)>>

\* NewErrorf(code, fmtCause, args...)
NewErrorf(op, code, fmtCause, args, stack) ==
    /\ rev = "val"
    /\ heap = <<>>
    /\ heap' = heap \o NewErrorfObjs(Len(heap) + 1, op, code, fmtCause, args, stack)
    /\ last' = Call("NewErrorf", NIL, Len(heap'))
    /\ got' = ""
    /\ UNCHANGED <<rev, frames>>

CallersNext ==
    \/ \E f \in Funcs : Enter(f)
    \/ Return
    \/ \E frameOffset \in Ints : Test_getCallingFunc(frameOffset)
    \/ Len(frames) > 1
          /\ NewError(CapturedOp("NewError"), Nth(CodeNames, 2), "cannot foo",
                      Nth(StackNames, 2))
    \/ Len(frames) > 1
          /\ NewErrorf(CapturedOp("NewErrorf"), Nth(CodeNames, 2),
                       <<"id: ", "%v">>, <<[type |-> "int", text |-> "13"]>>,
                       Nth(StackNames, 2))
    \/ \E err \in Held :
          Len(frames) > 1 /\ Len(heap) <= MaxWrapped
              /\ Wrap(CapturedOp("Wrap"), err, <<>>, Nth(StackNames, Len(heap) + 1))
    \/ \E err \in Held, f \in Formats, args \in Operands :
          Len(frames) > 1 /\ Len(heap) <= MaxWrapped
              /\ Wrapf(CapturedOp("Wrapf"), err, f, args,
                       Nth(StackNames, Len(heap) + 2))

SpecCallers == InitCallers /\ [][CallersNext]_vars

(***************************************************************************)
(* Properties.                                                             *)
(***************************************************************************)

\* The positions (1 is outermost) of the objects of a's chain whose own facet
\* is non-empty.
Holders(h, a, facet) ==
    {i \in 1..Len(Chain(h, a)) : h[Chain(h, a)[i]][facet] # ""}

\* The own facet of the outermost object of a's chain that has one.
Outermost(h, a, facet) ==
    IF Holders(h, a, facet) = {} THEN ""
    ELSE h[Chain(h, a)[Min(Holders(h, a, facet))]][facet]

\* The own facet of the innermost object of a's chain that has one.
Innermost(h, a, facet) ==
    IF Holders(h, a, facet) = {} THEN ""
    ELSE h[Chain(h, a)[Max(Holders(h, a, facet))]][facet]

\* Every error value: nil and every object.
Errors == {NIL} \cup Addrs(heap)

\* C1: ErrorCode of any chain (a nil head, a foreign head, a library head) is
\* the code of the outermost node whose code is non-empty, and the empty
\* string when no node of the chain has a code.
C1_ErrorCodeOutermost ==
    rev = "val" =>
        \A a \in Errors : ErrorCode(heap, a) = Outermost(heap, a, "code")

\* A head without a code over two nodes with different codes.
C1_Witness ==
    /\ rev = "val"
    /\ \E a \in Addrs(heap) :
          /\ heap[a].code = ""
          /\ ErrorCode(heap, a) # ""
          /\ \E i \in Holders(heap, a, "code") :
                heap[Chain(heap, a)[i]].code # ErrorCode(heap, a)

\* C2: ErrorMessage of any chain is the message of the outermost node whose
\* message is non-empty (an outer SetMessage hides a deeper message), and the
\* empty string when no node has a message.
C2_ErrorMessageOutermost ==
    rev = "val" =>
        \A a \in Errors : ErrorMessage(heap, a) = Outermost(heap, a, "message")

\* A library head with a message set over a deeper, different message, and a
\* head without a message that resolves a deeper one.
C2_Witness ==
    /\ rev = "val"
    /\ \E a \in Addrs(heap) :
          /\ heap[a].kind = "errorImpl"
          /\ heap[a].message # ""
          /\ ErrorMessage(heap, a) = heap[a].message
          /\ \E i \in Holders(heap, a, "message") :
                heap[Chain(heap, a)[i]].message # heap[a].message
    /\ \E b \in Addrs(heap) : heap[b].message = "" /\ ErrorMessage(heap, b) # ""

\* C3: ErrorStacktrace of any chain is the stacktrace of the innermost node
\* that has a non-empty one, never an outer node's when an inner one exists,
\* and the empty string when no node carries one.
C3_ErrorStacktraceInnermost ==
    rev = "val" =>
        \A a \in Errors :
            ErrorStacktrace(heap, a) = Innermost(heap, a, "stacktrace")

\* A head with a stacktrace of its own over a node with a different one.
C3_Witness ==
    /\ rev = "val"
    /\ \E a \in Addrs(heap) :
          /\ heap[a].stacktrace # ""
          /\ ErrorStacktrace(heap, a) # heap[a].stacktrace
          /\ ErrorStacktrace(heap, a) # ""
\* The library nodes of a's chain all have an empty message.
LibClear(h, a) ==
    LET c == Chain(h, a)
    IN \A i \in 1..Len(c) : h[c[i]].kind = "Error" => h[c[i]].message = ""

\* The message of the outermost foreign ClientFacing object of a's chain.
ForeignMessage(h, a) ==
    LET F == {i \in Holders(h, a, "message") :
                 h[Chain(h, a)[i]].kind = "clientFacing"}
    IN IF F = {} THEN "" ELSE h[Chain(h, a)[Min(F)]].message

\* a lies on the chain of e.
OnChain(h, e, a) == LET c == Chain(h, e) IN \E i \in 1..Len(c) : c[i] = a

\* C4 (amended): ClearMessage empties the message of its receiver and of
\* every library node below it and leaves every object above it as it was, so
\* ErrorMessage resolved from the receiver returns the empty string (or the
\* message of a foreign ClientFacing object below, which cannot be cleared),
\* and what is resolved from a node stays empty until a SetMessage.
C4_ClearMessageCascadesDown ==
    [][/\ last'.name = "ClearMessage" =>
             /\ LibClear(heap', last'.recv)
             /\ PtrErrorMessage(heap', last'.recv)
                    = ForeignMessage(heap, last'.recv)
             /\ \A a \in Addrs(heap) :
                    ~OnChain(heap, last'.recv, a) => heap'[a] = heap[a]
       /\ last'.name # "SetMessage" =>
             \A e \in PtrReceivers :
                 PtrErrorMessage(heap, e) = "" => PtrErrorMessage(heap', e) = ""
      ]_vars

\* ClearMessage was called on a node in the middle of a well-formed chain:
\* nothing is resolved from the receiver, the head above it still has its
\* message.
C4_Witness ==
    /\ rev = "ptr"
    /\ last.name = "ClearMessage"
    /\ last.recv < Len(heap)
    /\ \A a \in Addrs(heap) : heap[a].kind = "Error" => heap[a].err # NIL
    /\ heap[Len(heap)].kind = "Error"
    /\ heap[Len(heap)].message # ""
    /\ heap[heap[last.recv].err].kind = "Error"
    /\ PtrErrorMessage(heap, last.recv) = ""
    /\ PtrErrorMessage(heap, Len(heap)) = heap[Len(heap)].message

\* C4 as stated: after ClearMessage on any node of a chain of library nodes,
\* ErrorMessage resolved from the chain's outermost head is empty.
C4_ClearAnywhereEmptiesHead ==
    (/\ rev = "ptr"
     /\ last.name = "ClearMessage"
     /\ \A a \in Addrs(heap) : heap[a].kind # "clientFacing")
    => PtrErrorMessage(heap, Len(heap)) = ""

\* C5 as stated: Wrap and Wrapf given a nil error return nil, with or without
\* an optionalInfo or format.
C5_WrapNilReturnsNil ==
    (last.name \in {"Wrap", "Wrapf"} /\ last.recv = NIL) => last.ret = NIL

\* a's chain ends in a foreign leaf: its last object is not a library node.
EndsInLeaf(h, a) ==
    h[Chain(h, a)[Len(Chain(h, a))]].kind \notin {"Error", "errorImpl"}

\* C6 as stated: every library node has a non-nil cause and every chain ends
\* in a foreign leaf, whatever New, Wrap (also on nil) and the mutators did.
C6_NoNilCause ==
    rev = "ptr" =>
        \A a \in Addrs(heap) :
            /\ heap[a].kind = "Error" => heap[a].err # NIL
            /\ EndsInLeaf(heap, a)

\* The object reached from a by skipping foreign facet-less wrappers.
RECURSIVE SkipWrappers(_, _)
SkipWrappers(h, a) ==
    IF a = NIL THEN NIL
    ELSE IF h[a].kind = "wrapError" THEN SkipWrappers(h, h[a].err)
    ELSE a

\* The heap with every cause rewired past the foreign facet-less wrappers.
Stripped(h) ==
    [a \in Addrs(h) |->
        IF h[a].kind \in {"errorString", "wrapError"} THEN h[a]
        ELSE [h[a] EXCEPT !.err = SkipWrappers(h, h[a].err)]]

\* C7: foreign facet-less wrappers with an Unwrap method, one or two layers
\* of them anywhere in a chain, do not change ErrorCode and ErrorMessage: both
\* return what they return for the chain without those layers.
C7_ForeignLayersTransparent ==
    rev = "val" =>
        \A a \in Addrs(heap) :
            /\ ErrorCode(heap, a) = ErrorCode(Stripped(heap), a)
            /\ ErrorMessage(heap, a) = ErrorMessage(Stripped(heap), a)

\* A library head without a code, two fmt.Errorf layers below it, and below
\* them the library node whose code is found.
C7_Witness ==
    /\ rev = "val"
    /\ \E a \in Addrs(heap) :
          /\ heap[a].kind = "errorImpl"
          /\ heap[a].code = ""
          /\ Len(Chain(heap, a)) >= 4
          /\ heap[Chain(heap, a)[2]].kind = "wrapError"
          /\ heap[Chain(heap, a)[3]].kind = "wrapError"
          /\ heap[Chain(heap, a)[4]].kind = "errorImpl"
          /\ heap[Chain(heap, a)[2]].lit \in Prefixes
          /\ heap[Chain(heap, a)[3]].lit \in Prefixes
          /\ heap[Chain(heap, a)[4]].code # ""
          /\ ErrorCode(heap, a) = heap[Chain(heap, a)[4]].code
\* What a library node itself adds to a rendering.
NodePrefix(e) ==
    (IF e.op # "" THEN e.op \o ": " ELSE "")
    \o (IF e.code # "" THEN "[" \o e.code \o "] " ELSE "")

\* The contributions of the first k objects of the chain c, outermost first.
RECURSIVE Prefix(_, _, _)
Prefix(h, c, k) ==
    IF k = 0 THEN "" ELSE Prefix(h, c, k - 1) \o NodePrefix(h[c[k]])

\* The rendering read off a's chain: the library nodes down to the first
\* foreign object, then that object's stored text; a library node whose cause
\* is nil has no rendering.
FlatRender(h, a) ==
    LET c == Chain(h, a)
        F == {i \in 1..Len(c) : h[c[i]].kind # "Error"}
    IN IF F = {} THEN PanicText
       ELSE Prefix(h, c, Min(F) - 1) \o h[c[Min(F)]].msg

\* The rendering of a's chain computed from the chain as it is now: each
\* library node, each annotation "(<info>): ", the leaf's text.
RECURSIVE Structural(_, _)
Structural(h, a) ==
    IF h[a].kind = "Error" THEN NodePrefix(h[a]) \o Structural(h, h[a].err)
    ELSE IF h[a].kind = "wrapError" THEN h[a].lit \o Structural(h, h[a].err)
    ELSE h[a].msg

\* a's chain is made of library nodes and optionalInfo annotations over a
\* leaf built from a string.
ProperChain(h, a) ==
    LET c == Chain(h, a)
    IN /\ \A i \in 1..Len(c) :
             \/ h[c[i]].kind = "Error" /\ h[c[i]].err # NIL
             \/ h[c[i]].kind = "wrapError" /\ h[c[i]].lit \notin Prefixes
             \/ h[c[i]].kind = "errorString" /\ i = Len(c)
       /\ h[c[Len(c)]].kind = "errorString"

ScenarioFoo == PtrNewObjs(1, "Foo", "database_error", "cannot foo")
ScenarioBar == ScenarioFoo \o PtrWrapObjs(ScenarioFoo, 3, "Bar", 2, <<>>)
ScenarioFizz ==
    ScenarioFoo \o PtrWrapObjs(ScenarioFoo, 3, "Fizz", 2, <<"failed to fizz">>)

\* C8 (amended): a rendering is, outermost first, "<op>: " then "[<code>] "
\* for each library node down to the first foreign object, then that object's
\* text; an optionalInfo annotation is such an object and its text is
\* "(<info>): " followed by the rendering its cause had when Wrap was called,
\* which no later call changes; a node whose cause is nil has no rendering.
\* The two scenarios render as stated.
C8_RenderingWithSnapshot ==
    /\ [](rev = "ptr" =>
             /\ \A a \in Addrs(heap) : ErrorText(heap, a) = FlatRender(heap, a)
             /\ ErrorText(ScenarioBar, 3) = "Bar: Foo: [database_error] cannot foo"
             /\ ErrorText(ScenarioFizz, 4)
                    = "Fizz: (failed to fizz): Foo: [database_error] cannot foo")
    /\ [][rev = "ptr" =>
             /\ \A a \in Addrs(heap) :
                    heap[a].kind # "Error" => heap'[a] = heap[a]
             /\ (/\ last'.name = "Wrap"
                 /\ Len(heap') = Len(heap) + 2
                 /\ last'.recv # NIL
                 /\ ErrorText(heap, last'.recv) # PanicText)
                => /\ \E i \in Infos :
                         heap'[Len(heap) + 1].lit = "(" \o i \o "): "
                   /\ heap'[Len(heap) + 1].msg
                          = heap'[Len(heap) + 1].lit
                                \o ErrorText(heap, last'.recv)
                   /\ heap'[Len(heap')].err = Len(heap) + 1
                   /\ heap'[Len(heap) + 1].err = last'.recv
         ]_vars

\* SetCode on a node below an annotation: the head's rendering still shows
\* the node without its code.
C8_Witness ==
    /\ rev = "ptr"
    /\ last.name = "SetCode"
    /\ last.recv # NIL
    /\ ProperChain(heap, Len(heap))
    /\ heap[last.recv].code = "database_error"
    /\ ErrorText(heap, last.recv) = "Foo: [database_error] cannot foo"
    /\ ErrorText(heap, Len(heap)) = "Fizz: (failed to fizz): Foo: cannot foo"

\* C8 as stated: the rendering of a chain of library nodes and annotations
\* over a leaf is the concatenation of what each of them contributes.
C8_RenderingIsStructural ==
    rev = "ptr" =>
        \A a \in Addrs(heap) :
            ProperChain(heap, a) => ErrorText(heap, a) = Structural(heap, a)

\* C9: New succeeds for every op, code and cause text, the empty ones too;
\* the node has that op and code, an empty message, and as cause a fresh leaf
\* with that text; New("Foo", "database_error", "cannot foo") renders
\* "Foo: [database_error] cannot foo".
C9_NewStoresVerbatim ==
    /\ []((rev = "ptr" /\ heap = <<>>) =>
             \A op \in Ops(2), c \in Codes(2), t \in Causes :
                 ENABLED PtrNew(op, c, t))
    /\ [](ErrorText(ScenarioFoo, 2) = "Foo: [database_error] cannot foo")
    /\ [][\A op \in Ops(2), c \in Codes(2), t \in Causes :
             PtrNew(op, c, t) =>
                 /\ last'.ret \in Addrs(heap') \ Addrs(heap)
                 /\ heap'[last'.ret].kind = "Error"
                 /\ heap'[last'.ret].op = op
                 /\ heap'[last'.ret].code = c
                 /\ heap'[last'.ret].message = ""
                 /\ heap'[last'.ret].err \in Addrs(heap') \ Addrs(heap)
                 /\ heap'[heap'[last'.ret].err].kind = "errorString"
                 /\ heap'[heap'[last'.ret].err].msg = t
                 /\ ErrorText(heap', last'.ret)
                        = NodePrefix([op |-> op, code |-> c]) \o t
         ]_vars

\* New with an empty op, an empty code and an empty cause text.
C9_Witness ==
    /\ rev = "ptr"
    /\ last.name = "New"
    /\ heap[last.ret].op = ""
    /\ heap[last.ret].code = ""
    /\ heap[heap[last.ret].err].msg = ""
    /\ ErrorText(heap, last.ret) = ""

\* The heap with the message of every library node set to m.
WithMessages(h, m) ==
    [a \in Addrs(h) |->
        IF h[a].kind \in {"Error", "errorImpl"}
        THEN [h[a] EXCEPT !.message = m] ELSE h[a]]

\* C10: the message is no part of a rendering: a chain renders the same with
\* every message erased and with every message set, and a SetMessage or a
\* ClearMessage changes no rendering (a copy it returns renders as its
\* receiver).
C10_MessageNotRendered ==
    /\ [](\A m \in {"", "show this"} :
             LET h == WithMessages(heap, m)
             IN \A a \in Addrs(heap) : ErrorText(h, a) = ErrorText(heap, a))
    /\ [][(last'.name \in {"SetMessage", "ClearMessage"} /\ last'.recv # NIL) =>
             /\ \A a \in Addrs(heap) : ErrorText(heap', a) = ErrorText(heap, a)
             /\ ErrorText(heap', last'.ret) = ErrorText(heap, last'.recv)
         ]_vars

\* SetMessage returned a node with a message over a node with another one;
\* the rendering is that of the receiver.
C10_Witness ==
    /\ last.name = "SetMessage"
    /\ last.recv # NIL
    /\ heap[last.ret].message # ""
    /\ \E a \in Addrs(heap) :
          /\ OnChain(heap, last.ret, a)
          /\ heap[a].kind \in {"Error", "errorImpl"}
          /\ heap[a].message \notin {"", heap[last.ret].message}
    /\ ErrorText(heap, last.ret) = ErrorText(heap, last.recv)
\* The code tokens of a text, in order: what stands between each "[" that
\* has a "]" after it and the next "]".
RECURSIVE TokensOf(_, _, _)
TokensOf(t, opens, closes) ==
    IF opens = {} THEN <<>>
    ELSE LET i == Min(opens)
             after == {j \in closes : j > i}
         IN (IF after = {} THEN <<>>
             ELSE <<SubSeq(t, i + 1, Min(after) - 1)>>)
            \o TokensOf(t, opens \ {i}, closes)

Tokens(t) == TokensOf(t, At(t, "["), At(t, "]"))

\* The non-empty own codes of the library nodes among the first k objects of
\* the chain c, outermost first.
RECURSIVE OwnCodes(_, _, _)
OwnCodes(h, c, k) ==
    IF k = 0 THEN <<>>
    ELSE OwnCodes(h, c, k - 1)
         \o (IF h[c[k]].kind \in {"Error", "errorImpl"} /\ h[c[k]].code # ""
             THEN <<h[c[k]].code>> ELSE <<>>)

\* The positions of the foreign objects of the chain c.
ForeignAt(h, c) ==
    {i \in 1..Len(c) : h[c[i]].kind \notin {"Error", "errorImpl"}}

HasCode(h, a) ==
    LET c == Chain(h, a)
    IN /\ \E i \in 1..Len(c) : h[c[i]].code # ""
       /\ \A i \in 1..Len(c) : h[c[i]].code # "" => h[c[i]].kind = "errorImpl"

C12_FirstCaptureWins ==
    /\ [](rev = "val" =>
             \A a \in Addrs(heap) :
                 heap[a].kind = "errorImpl" =>
                     /\ heap[a].stacktrace # ""
                     /\ ErrorStacktrace(heap, a) = heap[a].stacktrace)
    /\ [][(last'.name \in {"Wrap", "Wrapf"} /\ last'.recv # NIL /\ rev = "val")
          => /\ heap'[last'.ret].stacktrace # ""
             /\ ErrorStacktrace(heap', last'.ret) = heap'[last'.ret].stacktrace
             /\ IF ErrorStacktrace(heap, last'.recv) # ""
                THEN heap'[last'.ret].stacktrace
                         = ErrorStacktrace(heap, last'.recv)
                ELSE \A b \in Addrs(heap) :
                         heap[b].stacktrace # heap'[last'.ret].stacktrace
         ]_vars

\* Wrap of a fmt.Errorf wrapper around a NewError node: the new node
\* has the stacktrace NewError captured.
C12_Witness ==
    /\ rev = "val"
    /\ last.name \in {"Wrap", "Wrapf"}
    /\ last.recv # NIL
    /\ heap[last.recv].kind = "wrapError"
    /\ heap[last.recv].lit \in Prefixes
    /\ heap[2].kind = "errorImpl"
    /\ heap[2].err = 1
    /\ Len(Chain(heap, last.ret)) >= 5
    /\ heap[last.ret].stacktrace = heap[2].stacktrace
    /\ ErrorStacktrace(heap, last.ret) = heap[2].stacktrace
Mutators == {"SetCode", "SetMessage", "ClearMessage"}

\* C13 (amended): in the pointer revision SetCode, SetMessage and
\* ClearMessage on a nil receiver change nothing and return nil; in the value
\* revision SetCode and SetMessage on the nil Error that Wrap returns for a
\* nil err panic, and change nothing.
C13_NilReceiver ==
    [][(last'.name \in Mutators /\ last'.recv = NIL) =>
          /\ heap' = heap
          /\ rev = "ptr" => last'.ret = NIL
          /\ rev = "val" => last'.ret = Panic
      ]_vars

\* SetCode was called on a nil *Error and returned nil.
C13_Witness ==
    /\ rev = "ptr"
    /\ last = Call("SetCode", NIL, NIL)
    /\ heap = <<>>

\* C13 as stated: a mutator called on a nil receiver returns nil.
C13_NilReceiverReturnsNil ==
    (last.name \in Mutators /\ last.recv = NIL) => last.ret = NIL
\* The objects x and y differ at most in the field f.
SameBut(x, y, f) == [x EXCEPT ![f] = y[f]] = y

CodeOf(h, a) == IF rev = "ptr" THEN PtrErrorCode(h, a) ELSE ErrorCode(h, a)
MessageOf(h, a) ==
    IF rev = "ptr" THEN PtrErrorMessage(h, a) ELSE ErrorMessage(h, a)

\* C15 as stated: the node Wrap returns for a non-nil err has an empty code
\* and message of its own, and ErrorCode and ErrorMessage of it are those of
\* err.
C15_WrapKeepsFacets ==
    (last.name = "Wrap" /\ last.recv # NIL) =>
        /\ heap[last.ret].code = ""
        /\ heap[last.ret].message = ""
        /\ CodeOf(heap, last.ret) = CodeOf(heap, last.recv)
        /\ MessageOf(heap, last.ret) = MessageOf(heap, last.recv)
\* Formats and operands that also leave a verb without operand and an
\* operand without verb.
MoreFormats == Formats \cup {<<"no verb">>, <<"%v", " of ", "%v">>}
MoreOperands ==
    Operands \cup {<<>>, <<[type |-> "int", text |-> "13"],
                          [type |-> "string", text |-> "x"]>>}

\* C16: Wrapf(err, format, args...) is Wrap(err, s) for the string s that
\* fmt.Sprintf makes of format and args: for a nil err both return nil, and
\* for every other err a call path holds both build the same objects, so the
\* results have the same op, rendering, code, message and stacktrace.
C16_WrapfIsWrap ==
    /\ [](rev = "val" =>
            \A err \in Held \ {NIL}, f \in MoreFormats, args \in MoreOperands :
                LET at == Len(heap) + 1
                    op == Nth(OpNames, at)
                    st == Nth(StackNames, at)
                    hf == heap \o WrapfObjs(heap, at, op, err, f, args, st)
                    hw == heap \o WrapObjs(heap, at, op, err,
                                           <<Sprintf(f, args)>>, st)
                IN /\ Len(hf) = Len(hw)
                   /\ hf[Len(hf)].op = hw[Len(hw)].op
                   /\ ErrorText(hf, Len(hf)) = ErrorText(hw, Len(hw))
                   /\ ErrorCode(hf, Len(hf)) = ErrorCode(hw, Len(hw))
                   /\ ErrorMessage(hf, Len(hf)) = ErrorMessage(hw, Len(hw))
                   /\ ErrorStacktrace(hf, Len(hf)) = ErrorStacktrace(hw, Len(hw))
                   /\ hf = hw)
    /\ [][(rev = "val" /\ last'.name \in {"Wrap", "Wrapf"} /\ last'.recv = NIL)
          => (last'.ret = NIL /\ heap' = heap)]_vars

\* Wrapf was called with "test id: %v" and 123 on a library node.
C16_Witness ==
    /\ rev = "val"
    /\ last.name = "Wrapf"
    /\ last.recv # NIL
    /\ heap[last.recv].kind = "errorImpl"
    /\ heap[heap[last.ret].err].lit = "(test id: 123): "
    /\ ErrorText(heap, last.ret)
           = heap[last.ret].op \o ": (test id: 123): "
                 \o ErrorText(heap, last.recv)
\* The objects a Wrap of err builds on h, with the annotation or without.
Wrapped(h, err, info) ==
    IF rev = "ptr"
    THEN h \o PtrWrapObjs(h, Len(h) + 1, Nth(OpNames, Len(h) + 1), err, info)
    ELSE h \o WrapObjs(h, Len(h) + 1, Nth(OpNames, Len(h) + 1), err, info,
                       Nth(StackNames, Len(h) + 1))

\* C17: for every err a call path hands to Wrap (nil too where Wrap has no
\* nil check), the annotation is one more link between the new node and err,
\* an fmt error that has no code, message or stacktrace of its own, and the
\* code, message and stacktrace resolved from the annotated result are those
\* resolved from the result without annotation.
C17_AnnotationIsTransparent ==
    \A err \in IF rev = "ptr" THEN Held ELSE Held \ {NIL} :
        \A i \in Infos :
            LET h1 == Wrapped(heap, err, <<i>>)
                h0 == Wrapped(heap, err, <<>>)
                link == h1[Len(heap) + 1]
            IN /\ Len(h1) = Len(h0) + 1
               /\ h1[Len(h1)].err = Len(heap) + 1
               /\ h0[Len(h0)].err = err
               /\ link.kind \in {"errorString", "wrapError"}
               /\ link.code = "" /\ link.message = "" /\ link.stacktrace = ""
               /\ link.err = err
               /\ CodeOf(h1, Len(h1)) = CodeOf(h0, Len(h0))
               /\ MessageOf(h1, Len(h1)) = MessageOf(h0, Len(h0))
               /\ rev = "val" =>
                      ErrorStacktrace(h1, Len(h1)) = ErrorStacktrace(h0, Len(h0))

\* An annotated Wrap of an error that resolves a code, a message and a
\* stacktrace.
C17_Witness ==
    /\ rev = "val"
    /\ last.name = "Wrap"
    /\ last.recv # NIL
    /\ heap[heap[last.ret].err].lit = "(failed to fizz): "
    /\ ErrorCode(heap, last.ret) # ""
    /\ ErrorMessage(heap, last.ret) # ""
    /\ ErrorStacktrace(heap, last.ret) = ErrorStacktrace(heap, last.recv)
    /\ ErrorStacktrace(heap, last.ret) # ""
\* The path whose call the step to the primed state was.
Actor ==
    IF last'.name = "Wrap" THEN heap'[last'.ret].op ELSE heap[last'.recv].op

\* C18: a call of one path writes only nodes that path built, and leaves the
\* code, message and rendering resolved from the value every other path holds
\* as they were, the paths having wrapped the same package-level error.
C18_PathsIsolated ==
    [][/\ \A a \in Addrs(heap) : heap'[a] # heap[a] => heap[a].op = Actor
       /\ \A q \in Paths \ {Actor} :
             /\ HeldBy(heap', q) = HeldBy(heap, q)
             /\ CodeOf(heap', HeldBy(heap, q)) = CodeOf(heap, HeldBy(heap, q))
             /\ MessageOf(heap', HeldBy(heap, q)) = MessageOf(heap, HeldBy(heap, q))
             /\ ErrorText(heap', HeldBy(heap, q)) = ErrorText(heap, HeldBy(heap, q))
      ]_vars
\* C19: getCallingFunc(frameOffset) returns the name of the function
\* frameOffset frames above itself: "getCallingFunc" for 0, "unknown" for
\* every offset beyond the depth of the stack, "Callers" for every negative
\* offset.
C19_GetCallingFunc ==
    last.name = "getCallingFunc" =>
        /\ last.recv = 0 => got = "getCallingFunc"
        /\ last.recv \in 1..Len(frames) => got = frames[last.recv].name
        /\ last.recv > Len(frames) => got = "unknown"
        /\ last.recv < 0 => got = "Callers"

Constructors == {"NewError", "NewErrorf", "Wrap", "Wrapf"}

\* C20: the op of the node a constructor returns is the name, inside its
\* package, of the function that called the constructor, function-literal
\* suffixes included.
C20_OpIsDirectCaller ==
    (last.name \in Constructors /\ last.ret # NIL) =>
        /\ heap[last.ret].op = frames[1].name
        /\ heap[last.ret].op \notin Constructors \cup {"getCallingFunc", "Callers"}

\* A constructor was called by a function literal started with go, itself
\* called from a named function.
C20_Witness ==
    /\ last.name \in Constructors
    /\ last.ret # NIL
    /\ Len(frames) = 3
    /\ frames[1].name = "TestErrors.func2.2"
    /\ frames[2].name = "Foo"
    /\ heap[last.ret].op = "TestErrors.func2.2"
\* C21: a link with Stacktrace() only is passed over by ErrorCode and
\* ErrorMessage, which resolve what the links below it resolve when nothing
\* above it has the facet; a link with ClientCode()/ClientMessage() only is
\* passed over by ErrorStacktrace, which resolves the stacktrace found below
\* it; and a stacktrace-only link that has the innermost non-empty stacktrace
\* gives it to ErrorStacktrace.
C21_CapabilitiesIndependent ==
    rev = "val" =>
        \A a \in Held \ {NIL} :
            LET c == Chain(heap, a)
            IN \A i \in 1..Len(c) :
                  LET below == Unwrap(heap, c[i])
                  IN /\ heap[c[i]].kind = "hasStacktrace" =>
                          /\ ErrorCode(heap, c[i]) = ErrorCode(heap, below)
                          /\ ErrorMessage(heap, c[i]) = ErrorMessage(heap, below)
                          /\ (\A j \in 1..(i - 1) : heap[c[j]].code = "") =>
                                 ErrorCode(heap, a) = ErrorCode(heap, below)
                          /\ (\A j \in 1..(i - 1) : heap[c[j]].message = "") =>
                                 ErrorMessage(heap, a) = ErrorMessage(heap, below)
                          /\ (heap[c[i]].stacktrace # ""
                                /\ ErrorStacktrace(heap, below) = "") =>
                                 ErrorStacktrace(heap, a) = heap[c[i]].stacktrace
                     /\ heap[c[i]].kind = "clientFacing" =>
                          /\ ErrorStacktrace(heap, c[i])
                                 = ErrorStacktrace(heap, below)
                          /\ ErrorStacktrace(heap, below) # "" =>
                                 ErrorStacktrace(heap, a)
                                     = ErrorStacktrace(heap, below)
                          /\ (heap[c[i]].code # ""
                                /\ \A j \in 1..(i - 1) : heap[c[j]].code = "") =>
                                 ErrorCode(heap, a) = heap[c[i]].code

\* A library node over a ClientFacing-only link and a HasStacktrace-only
\* link, which stand over a library node: the stacktrace comes from below
\* both links and the code from the ClientFacing link or from below it.
C21_Witness ==
    /\ rev = "val"
    /\ Len(heap) = 5
    /\ heap[5].kind = "errorImpl"
    /\ {heap[3].kind, heap[4].kind} = {"clientFacing", "hasStacktrace"}
    /\ Len(Chain(heap, 5)) = 5
    /\ ErrorStacktrace(heap, 5) = heap[2].stacktrace
    /\ heap[2].stacktrace # ""
    /\ ErrorCode(heap, 5) # ""
    /\ ErrorMessage(heap, 5) # ""
\* C22: in errors.go, ErrorCode and ErrorMessage of any chain are the own
\* code and the own message of the outermost node that has one, foreign
\* ClientFacing errors between the library nodes included.
C22_PtrOutermostFacet ==
    rev = "ptr" =>
        \A a \in Errors :
            /\ PtrErrorCode(heap, a) = Outermost(heap, a, "code")
            /\ PtrErrorMessage(heap, a) = Outermost(heap, a, "message")
\* SetCode has just given a code to a node that Wrap built with an
\* optionalInfo: the node has an op, and its cause is the annotation link.
AnnotatedWithCode ==
    /\ last.name = "SetCode"
    /\ last.recv # NIL
    /\ heap[last.ret].code # ""
    /\ heap[last.ret].op # ""
    /\ heap[last.ret].err # NIL
    /\ heap[heap[last.ret].err].lit \in {"(" \o i \o "): " : i \in Infos}

\* The text of the annotation link of the node SetCode returned, and the part
\* of it that follows "(info): ".
Annotation == heap[heap[last.ret].err].msg
AfterInfo ==
    SubSeq(Annotation, Len(heap[heap[last.ret].err].lit) + 1, Len(Annotation))

MoreInfos == Infos \cup {"cannot find id: 123", ""}
InfoLists ==
    {<<i, j>> : i \in Infos, j \in MoreInfos}
        \cup {<<i, j, k>> : i \in Infos, j \in MoreInfos, k \in MoreInfos}

\* C24: a Wrap with an optionalInfo builds what the same call with further
\* strings after that optionalInfo builds: the same objects, so the same
\* rendering, chain and resolved facets; only the first string is used.
C24_FirstInfoOnly ==
    [][(/\ last'.name = "Wrap"
        /\ Len(heap') = Len(heap) + 2
        /\ last'.ret = Len(heap')) =>
          \A info \in InfoLists :
              heap'[Len(heap) + 1].lit = "(" \o info[1] \o "): " =>
                  heap' = heap \o
                      (IF rev = "ptr"
                       THEN PtrWrapObjs(heap, Len(heap) + 1,
                                        heap'[last'.ret].op, last'.recv, info)
                       ELSE WrapObjs(heap, Len(heap) + 1,
                                     heap'[last'.ret].op, last'.recv, info,
                                     heap'[last'.ret].stacktrace))]_vars

\* The node a Wrap with one optionalInfo returned is the node the same call
\* with more strings after it builds.
C24_Witness ==
    /\ rev = "val"
    /\ last.name = "Wrap"
    /\ last.recv # NIL
    /\ last.ret = Len(heap)
    /\ heap[last.ret].err = last.ret - 1
    /\ heap[last.ret - 1].lit = "(failed to fizz): "
    /\ \E info \in InfoLists :
          /\ info[2] # info[1]
          /\ heap = SubSeq(heap, 1, last.ret - 2)
                        \o WrapObjs(SubSeq(heap, 1, last.ret - 2), last.ret - 1,
                                    heap[last.ret].op, last.recv, info,
                                    heap[last.ret].stacktrace)
\* The root library node of a's chain: its innermost *Error.
RootError(h, a) ==
    LET c == Chain(h, a)
    IN c[Max({i \in 1..Len(c) : h[c[i]].kind = "Error"})]

\* C25: e.OverwriteCode(c) on a non-nil e writes c as the code of the root
\* library node of e's chain, which is e itself when nothing below e is a
\* library node, and changes nothing else.
C25_OverwriteCodeWritesRoot ==
    [][\A e \in PtrReceivers :
          \A c \in Codes(e + 2) :
              OwOverwriteCode(e, c) =>
                  heap' = [heap EXCEPT ![RootError(heap, e)].code = c]]_vars
\* C26: e.SetClientMsg(m) on a non-nil e leaves m as the message of e and
\* an empty message in every library node below e, so ErrorMessage(e) is m.
C26_SetClientMsgOverwrites ==
    [][\A e \in PtrReceivers :
          \A m \in Messages(e) :
              OwSetClientMsg(e, m) =>
                  /\ heap'[e].message = m
                  /\ \A a \in Below(heap', e) :
                        heap'[a].kind = "Error" => heap'[a].message = ""
                  /\ OwErrorMessage(heap', e) = m]_vars

\* SetClientMsg on a node between two library nodes: the node has the new
\* message, the node below has none, the node above keeps its own.
C26_Witness ==
    /\ rev = "ow"
    /\ last = Call("SetClientMsg", 3, 3)
    /\ Len(heap) = 4
    /\ heap[4].kind = "Error" /\ heap[4].err = 3 /\ heap[4].message # ""
    /\ heap[3].kind = "Error" /\ heap[3].err = 2 /\ heap[3].message # ""
    /\ heap[2].kind = "Error" /\ heap[2].message = ""
    /\ OwErrorMessage(heap, 3) = heap[3].message
\* C27: in part_004, ErrorCode of nil is empty, and ErrorCode of any other
\* chain is the code of the outermost node that has one, foreign wrappers
\* between library nodes included, and "unexpected_error" when no node has
\* a code.
C27_OwErrorCodeDefault ==
    rev = "ow" =>
        \A a \in Errors :
            OwErrorCode(heap, a)
                = IF a = NIL THEN ""
                  ELSE IF Outermost(heap, a, "code") # ""
                       THEN Outermost(heap, a, "code")
                  ELSE "unexpected_error"
\* C28: in part_006, SetCode and SetMessage on an Error value return a new
\* value that differs from the receiver in that facet only; the receiver and
\* every other value stay as they were, and so do the code, message,
\* stacktrace and rendering resolved from every value that existed, the
\* chains that wrap the receiver included.
C28_ValueReceivers ==
    [][(rev = "val" /\ last'.name \in {"SetCode", "SetMessage"}
          /\ last'.recv # NIL) =>
          /\ Len(heap') = Len(heap) + 1
          /\ last'.ret = Len(heap')
          /\ SameBut(heap[last'.recv], heap'[last'.ret],
                     IF last'.name = "SetCode" THEN "code" ELSE "message")
          /\ \A a \in Addrs(heap) :
                /\ heap'[a] = heap[a]
                /\ ErrorCode(heap', a) = ErrorCode(heap, a)
                /\ ErrorMessage(heap', a) = ErrorMessage(heap, a)
                /\ ErrorStacktrace(heap', a) = ErrorStacktrace(heap, a)
                /\ ErrorText(heap', a) = ErrorText(heap, a)]_vars

\* SetCode was called on the sentinel that a path's chain wraps: the copy has
\* the new code, the sentinel and the chain have the old one.
C28_Witness ==
    /\ rev = "val"
    /\ last.name = "SetCode"
    /\ last.recv = Sentinel
    /\ heap[last.ret].code \notin {"", heap[Sentinel].code}
    /\ heap[Sentinel].code = "internal_error"
    /\ \E a \in Addrs(heap) :
          /\ heap[a].op \in Paths
          /\ heap[a].err = Sentinel
          /\ ErrorCode(heap, a) = "internal_error"
\* C29: ClearMessage of errors.go returns its receiver and writes message
\* fields only, each to the empty string: the op, code and cause of every
\* node, the Error() text and the ErrorCode of every value are as before, and
\* a second ClearMessage on the same receiver changes nothing.
C29_ClearMessageOnlyMessages ==
    [][(rev = "ptr" /\ last'.name = "ClearMessage") =>
          /\ last'.ret = last'.recv
          /\ Len(heap') = Len(heap)
          /\ \A a \in Addrs(heap) :
                /\ SameBut(heap[a], heap'[a], "message")
                /\ heap'[a].message \in {"", heap[a].message}
                /\ ErrorText(heap', a) = ErrorText(heap, a)
                /\ PtrErrorCode(heap', a) = PtrErrorCode(heap, a)
          /\ PtrClearMessageHeap(heap', last'.recv) = heap']_vars

\* ClearMessage has run on a node with a code whose cause is a node with a
\* code: both codes are there and the resolved message is empty.
C29_Witness ==
    /\ rev = "ptr"
    /\ last.name = "ClearMessage"
    /\ last.recv # NIL
    /\ last.ret = last.recv
    /\ heap[last.recv].code # ""
    /\ heap[last.recv].err # NIL
    /\ heap[heap[last.recv].err].kind = "Error"
    /\ heap[heap[last.recv].err].code # ""
    /\ PtrErrorCode(heap, last.recv) = heap[last.recv].code
    /\ \A a \in PtrReceivers : heap[a].message = ""
====
